---------------------------- MODULE Spec2Model ----------------------------
(***************************************************************************)
(* CSVtoQDC: the Code / CodeClosure / Codebook classes of CSVtoQDC/app.py  *)
(* and the command-line driver test.py.                                    *)
(*                                                                         *)
(* A Python str is a sequence of one-character strings; None is the        *)
(* one-element sequence <<"None">> (no character has four letters).        *)
(* Rendered XML is a TLA+ string built with \o.                            *)
(***************************************************************************)
EXTENDS Integers, Sequences, FiniteSets, TLC

VARIABLES
    importDir,   \* import/: project directory name -> set of files in it
    blocked,     \* project names whose export/<name> directory cannot be written
    argv,        \* sys.argv[1:], a sequence of tokens
    projects,    \* main's list of project names
    pc,          \* position of main(): "start", "construct", "write", "report",
                 \* "done", or "raised" (an exception left main)
    idx,         \* index of the project being processed (enumerate in main)
    cb,          \* the Codebook instance main is holding
    ret,         \* what cb.write() returned
    stdout,      \* the per-project reports main has printed
    handlers,    \* logging's registry: logger name -> number of FileHandlers
    errFiles,    \* export/errors/<name>.txt -> number of records appended
    errorsDir,   \* whether export/errors exists
    exported,    \* export/<name>/*.qdc: project name -> last text written
    nextGuid,    \* source of fresh uuid4 values
    code,        \* the Code under test (rendering specification)
    rendered     \* its text (rendering specification)

vars == <<importDir, blocked, argv, projects, pc, idx, cb, ret, stdout, handlers,
          errFiles, errorsDir, exported, nextGuid, code, rendered>>

-----------------------------------------------------------------------------
(* Python strings *)

None == <<"None">>

\* Python truthiness of an optional string: None and '' are false.
Truthy(x) == x # None /\ x # <<>>

\* The printable ASCII characters, code points 32 .. 126 (code point 96, the
\* grave accent, is written "GRAVE": the lexer does not accept it in a string).
ASCII ==
    <<" ", "!", "\"", "#", "$", "%", "&", "'", "(", ")", "*", "+", ",", "-",
      ".", "/", "0", "1", "2", "3", "4", "5", "6", "7", "8", "9", ":", ";",
      "<", "=", ">", "?", "@",
      "A", "B", "C", "D", "E", "F", "G", "H", "I", "J", "K", "L", "M",
      "N", "O", "P", "Q", "R", "S", "T", "U", "V", "W", "X", "Y", "Z",
      "[", "\\", "]", "^", "_", "GRAVE",
      "a", "b", "c", "d", "e", "f", "g", "h", "i", "j", "k", "l", "m",
      "n", "o", "p", "q", "r", "s", "t", "u", "v", "w", "x", "y", "z",
      "{", "|", "}", "~">>

\* ord(c), tabulated once
OrdOf == [c \in {ASCII[i] : i \in 1..Len(ASCII)} |->
            31 + (CHOOSE i \in 1..Len(ASCII) : ASCII[i] = c)]
Ord(c) == OrdOf[c]
Chr(n) == ASCII[n - 31]

IsUpper(c) == Ord(c) >= 65 /\ Ord(c) <= 90
IsLower(c) == Ord(c) >= 97 /\ Ord(c) <= 122
IsCased(c) == IsUpper(c) \/ IsLower(c)
LowerChar(c) == IF IsUpper(c) THEN Chr(Ord(c) + 32) ELSE c
UpperChar(c) == IF IsLower(c) THEN Chr(Ord(c) - 32) ELSE c

\* str.lower()
Lower(s) == [i \in 1..Len(s) |-> LowerChar(s[i])]

\* str.title(): a cased character is upper-cased when the character before
\* it is not cased, and lower-cased otherwise.
Title(s) ==
    [i \in 1..Len(s) |->
        IF i > 1 /\ IsCased(s[i-1]) THEN LowerChar(s[i]) ELSE UpperChar(s[i])]

\* s < t for Python strings (lexicographic by code point).
RECURSIVE StrLess(_, _)
StrLess(s, t) ==
    IF t = <<>> THEN FALSE
    ELSE IF s = <<>> THEN TRUE
    ELSE IF Head(s) = Head(t) THEN StrLess(Tail(s), Tail(t))
    ELSE Ord(Head(s)) < Ord(Head(t))

\* sorted(lst) for a list of strings (insertion sort; equal strings are
\* indistinguishable, so stability is not observable).
RECURSIVE Insert(_, _)
Insert(x, lst) ==
    IF lst = <<>> THEN <<x>>
    ELSE IF StrLess(x, Head(lst)) THEN <<x>> \o lst
    ELSE <<Head(lst)>> \o Insert(x, Tail(lst))

RECURSIVE sorted(_)
sorted(lst) ==
    IF lst = <<>> THEN <<>> ELSE Insert(Head(lst), sorted(Tail(lst)))

\* The str as text (f-string interpolation).
RECURSIVE Str(_)
Str(s) == IF s = <<>> THEN "" ELSE Head(s) \o Str(Tail(s))

\* x in lst
In(x, lst) == \E i \in 1..Len(lst) : lst[i] = x

-----------------------------------------------------------------------------
(* class Code *)

\* str(uuid.uuid4()): a fresh identifier, here the n-th one.
generate_uuid(n) == "guid-" \o ToString(n)

\* Code.__init__
Code(n, name, parent, colour, isCodable, isCategory, description) ==
    [kind |-> "Code", guid |-> generate_uuid(n), name |-> name,
     colour |-> colour, parent |-> parent, isCodable |-> isCodable,
     isCategory |-> isCategory, description |-> description]

\* Code.name
Code_name(c) ==
    IF Truthy(c.parent)
    THEN Str(c.parent) \o " - " \o Str(c.name)
    ELSE Str(c.name)

\* Code.isCodable
Code_isCodable(c) == IF c.isCodable THEN "true" ELSE "false"

\* Code.isCategory
Code_isCategory(c) == IF c.isCategory THEN "" ELSE "/"

\* Code.description without the branch for a description.
DescriptionNeverNested(c) == Code_isCategory(c) \o ">"

\* Code.description
Code_description(c) ==
    IF Truthy(c.description)
    THEN "><Description>" \o Str(c.description) \o "</Description></Code>"
    ELSE Code_isCategory(c) \o ">"

\* Code.colour
Code_colour(c) ==
    IF Truthy(c.colour) THEN "color=\"" \o Str(c.colour) \o "\" " ELSE ""

\* Code.text
Code_text(c) ==
    "<Code " \o Code_colour(c) \o "guid=\"" \o c.guid \o "\" isCodable=\""
        \o Code_isCodable(c) \o "\" name=\"" \o Code_name(c) \o "\""
        \o Code_description(c)

\* class CodeClosure
CodeClosure == [kind |-> "CodeClosure", text |-> "</Code>"]

\* .text of an entity of either class
Text(e) == IF e.kind = "Code" THEN Code_text(e) ELSE e.text

-----------------------------------------------------------------------------
(* class Codebook: constants *)

HEADER ==
    "<?xml version=\"1.0\" encoding=\"UTF-8\" standalone=\"no\" ?>"
    \o "<CodeBook origin=\"NVivo 12 For Mac\" xmlns=\"urn:QDA-XML:codebook:1:0\" "
    \o "xmlns:xsi=\"http://www.w3.org/2001/XMLSchema-instance\" "
    \o "xsi:schemaLocation=\"urn:QDA-XML:codebook:1:0 Codebook.xsd\"><Codes>"

FOOTER == "</Codes></CodeBook>"

COLOURS ==
    << <<"#","0","0","F","F","0","0">>, <<"#","F","F","0","0","0","0">>,
       <<"#","F","F","F","F","0","0">>, <<"#","0","0","0","0","F","F">>,
       <<"#","0","0","8","0","8","0">>, <<"#","0","0","F","F","F","F">>,
       <<"#","F","F","0","0","F","F">>, <<"#","0","0","8","0","0","0">> >>

GENERIC == <<"t","o","p","-","l","e","v","e","l","-","c","o","d","e","s">>

CSV == <<".","c","s","v">>

-----------------------------------------------------------------------------
(* The import directory: project name -> set of files [name, rows], rows    *)
(* being what csv.reader yields for the file (a blank line yields <<>>).    *)

\* code_list.split('.')[0]
RECURSIVE BeforeDot(_)
BeforeDot(s) ==
    IF s = <<>> \/ Head(s) = "." THEN <<>> ELSE <<Head(s)>> \o BeforeDot(Tail(s))

\* The files of a directory in some listing order.
RECURSIVE Listing(_)
Listing(files) ==
    IF files = {} THEN <<>>
    ELSE LET f == CHOOSE g \in files : TRUE IN <<f>> \o Listing(files \ {f})

\* One project's entry of Codebook.__read_project_files: every file name's
\* part before the first dot (append succeeds before .lower() fails on its
\* None result), empty entries removed, sorted.
ProjectLists(files) ==
    LET lst == Listing(files)
        all == [i \in 1..Len(lst) |-> BeforeDot(lst[i].name)]
    IN  sorted(SelectSeq(all, LAMBDA cl : cl # <<>>))

\* Codebook.__read_project_files: the projects dictionary.
read_project_files(dir) == [p \in DOMAIN dir |-> ProjectLists(dir[p])]

\* The AttributeErrors it logs: one for every file of every project.
RECURSIVE CountFiles(_, _)
CountFiles(dir, ps) ==
    IF ps = {} THEN 0
    ELSE LET p == CHOOSE q \in ps : TRUE
         IN  Cardinality(dir[p]) + CountFiles(dir, ps \ {p})

read_project_files_logged(dir) == CountFiles(dir, DOMAIN dir)

\* open(f'{directory}/{name}.csv') succeeds
CanOpen(files, name) == \E f \in files : f.name = name \o CSV

\* csv.reader(f) for that file
Rows(files, name) == (CHOOSE f \in files : f.name = name \o CSV).rows

\* The rows a loop body runs on: "if not row: continue"
NonBlank(rows) == SelectSeq(rows, LAMBDA row : row # <<>>)

-----------------------------------------------------------------------------
(* Codebook.__load_code_lists *)

\* The read of the generic list: for every non-blank row the lower-cased
\* first column is appended to temp, descriptions[label] is the second
\* column (None, and one logged IndexError, when there is none).
GenericLabels(rows) ==
    LET nb == NonBlank(rows) IN [i \in 1..Len(nb) |-> Lower(nb[i][1])]

GenericDescription(row) == IF Len(row) >= 2 THEN row[2] ELSE None

descriptions(rows) ==
    LET nb   == NonBlank(rows)
        labs == GenericLabels(rows)
        last(l) == CHOOSE i \in 1..Len(nb) :
                      /\ labs[i] = l
                      /\ \A j \in (i+1)..Len(nb) : labs[j] # l
    IN  [l \in {labs[i] : i \in 1..Len(nb)} |-> GenericDescription(nb[last(l)])]

GenericLogged(rows) ==
    Len(SelectSeq(NonBlank(rows), LAMBDA row : Len(row) < 2))

\* temp: the names the emission loop sorts and iterates.
temp(files, code_lists) ==
    IF In(GENERIC, code_lists)
    THEN SelectSeq(code_lists, LAMBDA lst : lst # GENERIC)
            \o GenericLabels(Rows(files, GENERIC))
    ELSE code_lists

\* The i-th next(colours) of cycle(Codebook.COLOURS), i = 1, 2, ...
NextColour(i) == COLOURS[((i - 1) % Len(COLOURS)) + 1]

\* The Code that opens a category.
CategoryCode(n, name, colour) ==
    Code(n, Title(name), None, colour, TRUE, TRUE, None)

\* The fallback Code, had it kept the last column as description.
FallbackWithDescription(n, row, name, colour) ==
    Code(n, Title(row[1]), Title(name), colour, TRUE, FALSE, row[Len(row)])

\* The Code of a row that does not unpack into (label, description).
FallbackCode(n, row, name, colour) ==
    Code(n, Title(row[1]), Title(name), colour, TRUE, FALSE, None)

\* The Code of one non-blank row of a category's list.
ChildCode(n, row, name, colour) ==
    IF Len(row) = 2
    THEN Code(n, Title(row[1]), Title(name), colour, TRUE, FALSE, row[2])
    ELSE FallbackCode(n, row, name, colour)

\* The ValueErrors logged for a category's list.
ChildLogged(rows) ==
    Len(SelectSeq(NonBlank(rows), LAMBDA row : Len(row) # 2))

\* A category left without its CodeClosure.
NoClosure == <<>>

\* What follows the rows of a category.
Closure == <<CodeClosure>>

\* The entities appended for one category: its Code, one Code per non-blank
\* row, the CodeClosure. n is the number of guids generated so far.
Group(n, name, colour, rows) ==
    LET nb == NonBlank(rows)
    IN  <<CategoryCode(n + 1, name, colour)>>
            \o [k \in 1..Len(nb) |-> ChildCode(n + 1 + k, nb[k], name, colour)]
            \o Closure

\* The emission loop from the i-th name of names = sorted(temp) on.
\* acc = [raised, codes, logged, n]; open() of a missing file raises.
RECURSIVE Emit(_, _, _, _, _)
Emit(names, i, files, code_lists, acc) ==
    IF i > Len(names) \/ acc.raised THEN acc
    ELSE IF ~In(names[i], code_lists)
         THEN Emit(names, i + 1, files, code_lists, acc)
    ELSE IF ~CanOpen(files, names[i])
         THEN [acc EXCEPT !.raised = TRUE]
    ELSE LET rows == Rows(files, names[i])
         IN  Emit(names, i + 1, files, code_lists,
                  [raised |-> FALSE,
                   codes  |-> acc.codes
                                \o Group(acc.n, names[i], NextColour(i), rows),
                   logged |-> acc.logged + ChildLogged(rows),
                   n      |-> acc.n + 1 + Len(NonBlank(rows))])

\* Codebook.__load_code_lists for a project with these files and code lists:
\* [raised, codes, logged, n] (the exceptions it logged; the guids used).
load_code_lists(files, code_lists, n) ==
    IF In(GENERIC, code_lists) /\ ~CanOpen(files, GENERIC)
    THEN [raised |-> TRUE, codes |-> <<>>, logged |-> 0, n |-> n]
    ELSE Emit(sorted(temp(files, code_lists)), 1, files, code_lists,
              [raised |-> FALSE, codes |-> <<>>,
               logged |-> IF In(GENERIC, code_lists)
                          THEN GenericLogged(Rows(files, GENERIC)) ELSE 0,
               n |-> n])

\* Codebook.xml
RECURSIVE xml(_)
xml(codes) == IF codes = <<>> THEN "" ELSE Text(Head(codes)) \o xml(Tail(codes))

\* Codebook.text
Codebook_text(codes) == HEADER \o xml(codes) \o FOOTER

-----------------------------------------------------------------------------
(* logging *)

\* Logger l is logger n or one of its ancestors in logging's dotted-name
\* hierarchy: a record logged on n is handled by the handlers of n and of
\* every ancestor of n (Logger.propagate is left True).
Propagates(l, n) ==
    \/ l = n
    \/ /\ Len(l) < Len(n)
       /\ SubSeq(n, 1, Len(l)) = l
       /\ n[Len(l) + 1] = "."

\* Codebook.__set_error_logger: getLogger(project_name), makedirs,
\* FileHandler(export/errors/<project_name>.txt) (which creates the file),
\* addHandler.
set_error_logger_handlers(h, name) ==
    [l \in DOMAIN h \cup {name} |->
        IF l = name THEN (IF l \in DOMAIN h THEN h[l] ELSE 0) + 1 ELSE h[l]]

set_error_logger_files(files, name) ==
    [l \in DOMAIN files \cup {name} |-> IF l \in DOMAIN files THEN files[l] ELSE 0]

\* error_logger.exception(e), k times, on logger name: every handler of the
\* logger and of its ancestors appends the record to its file.
exception(files, h, name, k) ==
    [l \in DOMAIN files |->
        files[l] + (IF Propagates(l, name) THEN k * h[l] ELSE 0)]

-----------------------------------------------------------------------------
(* Codebook.write and main() of test.py *)

\* Python values write() returns
RetFalse == "False"
RetNone == "None"
filename(name) == "export/" \o Str(name) \o "/%Y%m%d-%H%M%S.qdc"

\* "if filename:" in main
Success(r) == r # RetFalse /\ r # RetNone

\* line.startswith('--')
StartsWithDashes(line) == Len(line) >= 2 /\ line[1] = "-" /\ line[2] = "-"

\* The Codebook whose project is not among the projects read.
NullCodebook == [name |-> None, code_lists |-> <<>>, codes |-> <<>>]

\* write() without its guard on the name.
WriteAlways(c) == FALSE

\* "if not self.name: return False"
WriteRefused(c) == ~Truthy(c.name)

\* main(): the projects named by the tokens that start with '--'.
ParseArgs ==
    /\ pc = "start"
    /\ LET dashed == SelectSeq(argv, StartsWithDashes)
           ps     == [i \in 1..Len(dashed) |->
                         SubSeq(dashed[i], 3, Len(dashed[i]))]
       IN  /\ projects' = ps
           /\ IF ps # <<>>
              THEN pc' = "construct" /\ idx' = 1 /\ stdout' = stdout
              ELSE pc' = "done" /\ idx' = idx
                     /\ stdout' = Append(stdout, [project |-> None, ok |-> FALSE])
    /\ UNCHANGED <<importDir, blocked, argv, cb, ret, handlers, errFiles,
                   errorsDir, exported, nextGuid, code, rendered>>

\* Codebook(project): Codebook.__init__, with __set_error_logger,
\* __read_project_files and __load_code_lists.
Construct ==
    /\ pc = "construct"
    /\ LET p     == projects[idx]
           h1    == set_error_logger_handlers(handlers, p)
           f1    == set_error_logger_files(errFiles, p)
           index == read_project_files(importDir)
           f2    == exception(f1, h1, p, read_project_files_logged(importDir))
       IN  /\ handlers' = h1
           /\ errorsDir' = TRUE
           /\ IF p \in DOMAIN index
              THEN LET r == load_code_lists(importDir[p], index[p], nextGuid)
                   IN  /\ errFiles' = exception(f2, h1, p, r.logged)
                       /\ nextGuid' = r.n
                       /\ IF r.raised
                          THEN pc' = "raised" /\ cb' = cb
                          ELSE /\ pc' = "write"
                               /\ cb' = [name |-> p, code_lists |-> index[p],
                                         codes |-> r.codes]
              ELSE /\ errFiles' = f2
                   /\ nextGuid' = nextGuid
                   /\ pc' = "write"
                   /\ cb' = NullCodebook
    /\ UNCHANGED <<importDir, blocked, argv, projects, idx, ret, stdout,
                   exported, code, rendered>>

\* Codebook.write
Write ==
    /\ pc = "write"
    /\ pc' = "report"
    /\ IF WriteRefused(cb)
       THEN /\ ret' = RetFalse
            /\ UNCHANGED <<errFiles, exported>>
       ELSE IF cb.name \in blocked
       THEN /\ errFiles' = exception(errFiles, handlers, cb.name, 1)
            /\ ret' = RetNone
            /\ UNCHANGED exported
       ELSE /\ exported' = [q \in DOMAIN exported \cup {cb.name} |->
                               IF q = cb.name THEN Codebook_text(cb.codes)
                               ELSE exported[q]]
            /\ ret' = filename(cb.name)
            /\ UNCHANGED errFiles
    /\ UNCHANGED <<importDir, blocked, argv, projects, idx, cb, stdout,
                   handlers, errorsDir, nextGuid, code, rendered>>

\* main(): the report on one project, and the step to the next.
Report ==
    /\ pc = "report"
    /\ stdout' = Append(stdout, [project |-> projects[idx], ok |-> Success(ret)])
    /\ IF idx < Len(projects)
       THEN idx' = idx + 1 /\ pc' = "construct"
       ELSE idx' = idx /\ pc' = "done"
    /\ UNCHANGED <<importDir, blocked, argv, projects, cb, ret, handlers,
                   errFiles, errorsDir, exported, nextGuid, code, rendered>>

Next == ParseArgs \/ Construct \/ Write \/ Report

-----------------------------------------------------------------------------
(* Inputs *)

MaxArgs == 3      \* tokens on the command line
MaxRows == 2      \* rows of the category list that is varied
MaxGenRows == 2   \* varied rows of the generic list
MaxCopies == 9    \* leading repetitions of one row in the generic list
MaxGuid == 2      \* guids drawn for the Code under test

SeqUpTo(S, n) == UNION {[1..k -> S] : k \in 0..n}

RECURSIVE Copies(_, _)
Copies(k, row) == IF k = 0 THEN <<>> ELSE <<row>> \o Copies(k - 1, row)

demo == <<"d","e","m","o">>
demo_v2 == <<"d","e","m","o",".","v","2">>
bad == <<"b","a","d">>
nope == <<"n","o","p","e">>
fruit == <<"f","r","u","i","t">>
Zed == <<"Z","e","d">>
TXT == <<".","t","x","t">>
Dashes == <<"-","-">>

apple == <<"a","p","p","l","e">>
a_fruit == <<"a"," ","f","r","u","i","t">>
alpha == <<"a","l","p","h","a">>
solo == <<"s","o","l","o">>

CatRowChoices ==
    { <<>>,
      <<apple, a_fruit>>,
      <<<<"b","a","n","a","n","a">>>>,
      <<<<"k","i","w","i">>, <<>>>>,
      <<<<"r","e","d"," ","f","i","g">>, <<"x">>, <<"y">>>> }

GenRowChoices ==
    { <<>>,
      <<<<"F","r","u","i","t">>, <<"f">>>>,
      <<solo>>,
      <<GENERIC, <<"z","z">>>>,
      <<<<"g","a","m","m","a">>, <<"d">>, <<"e">>>> }

FruitFile == [name |-> fruit \o CSV, rows |-> << <<apple, a_fruit>>, <<alpha>> >>]
ZedFile == [name |-> Zed \o CSV, rows |-> << <<<<"k">>, <<"v">>>> >>]

\* What else the varied project's directory may hold beside fruit.csv.
Extras ==
    { {},
      {ZedFile},
      {[name |-> Zed \o TXT, rows |-> <<>>]},
      {[name |-> <<".","h","i","d","d","e","n">>, rows |-> <<>>]},
      {[name |-> GENERIC \o CSV, rows |-> << <<solo, <<"d">>>> >>]} }

\* The directory of the command-line runs.
CLIDir ==
    (demo :> {FruitFile})
    @@ (demo_v2 :> {ZedFile})
    @@ (bad :> {[name |-> GENERIC \o TXT, rows |-> <<>>]})

Tokens == {Dashes \o demo, Dashes \o demo_v2, Dashes \o bad, Dashes \o nope, demo}

Idle ==
    /\ projects = <<>>
    /\ idx = 0
    /\ cb = NullCodebook
    /\ ret = RetNone
    /\ stdout = <<>>
    /\ handlers = <<>>
    /\ errFiles = <<>>
    /\ errorsDir = FALSE
    /\ exported = <<>>
    /\ nextGuid = 0

\* Several tokens over a fixed import directory.
InitCLI ==
    /\ importDir = CLIDir
    /\ blocked \in {{}, {demo}, {demo_v2}}
    /\ argv \in SeqUpTo(Tokens, MaxArgs)

\* One project whose category list is varied.
InitRows ==
    /\ \E rows \in SeqUpTo(CatRowChoices, MaxRows), extra \in Extras :
          importDir = (demo :> ({[name |-> fruit \o CSV, rows |-> rows]} \cup extra))
    /\ blocked = {}
    /\ argv = <<Dashes \o demo>>

\* One project whose generic list is varied.
InitGeneric ==
    /\ \E k \in 0..MaxCopies, rows \in SeqUpTo(GenRowChoices, MaxGenRows),
          extra \in {{}, {ZedFile}} :
          importDir =
            (demo :> ({FruitFile,
                       [name |-> GENERIC \o CSV,
                        rows |-> Copies(k, <<alpha, <<"d">>>>) \o rows]}
                      \cup extra))
    /\ blocked = {}
    /\ argv = <<Dashes \o demo>>

Init ==
    /\ pc = "start"
    /\ Idle
    /\ code = CodeClosure
    /\ rendered = ""
    /\ InitCLI \/ InitRows \/ InitGeneric

Spec == Init /\ [][Next]_vars

-----------------------------------------------------------------------------
(* Rendering of one Code *)

CodeInit ==
    /\ pc = "code"
    /\ Idle
    /\ importDir = <<>>
    /\ blocked = {}
    /\ argv = <<>>
    /\ rendered = ""
    /\ \E n \in 1..MaxGuid,
          name \in {solo, a_fruit},
          parent \in {None, <<>>, Zed},
          colour \in {None, <<>>, COLOURS[1]},
          isCodable \in BOOLEAN,
          isCategory \in BOOLEAN,
          description \in {None, <<>>, a_fruit} :
          code = Code(n, name, parent, colour, isCodable, isCategory, description)

\* code.text
Render ==
    /\ pc = "code"
    /\ pc' = "rendered"
    /\ rendered' = Text(code)
    /\ UNCHANGED <<importDir, blocked, argv, projects, idx, cb, ret, stdout,
                   handlers, errFiles, errorsDir, exported, nextGuid, code>>

CodeNext == Render

CodeSpec == CodeInit /\ [][CodeNext]_vars

-----------------------------------------------------------------------------
(* Properties *)

Present(x) == x # None /\ x # <<>>

\* A load has completed and cb is its Codebook.
Loaded == Present(cb.name)

Codes == cb.codes
Files == importDir[cb.name]
Lists == {cb.code_lists[i] : i \in 1..Len(cb.code_lists)}

IsCategoryCode(e) == e.kind = "Code" /\ e.isCategory
IsOpen(e) == IsCategoryCode(e) /\ e.description = None /\ Code_description(e) = ">"
IsChild(e) == e.kind = "Code" /\ ~e.isCategory /\ Code_description(e) # ">"
IsClosure(e) == e.kind = "CodeClosure" /\ Text(e) = "</Code>"

\* The positions at which a category named nm is opened.
GroupsOf(nm) == {i \in 1..Len(Codes) : IsCategoryCode(Codes[i]) /\ Codes[i].name = Title(nm)}

\* The non-blank rows of list nm.
RowsOf(nm) == LET rows == Rows(Files, nm)
              IN  SelectSeq(rows, LAMBDA row : Len(row) > 0)

\* Open categories after reading the first j entities.
Depth(j) ==
    Cardinality({i \in 1..j : IsCategoryCode(Codes[i])})
        - Cardinality({i \in 1..j : Codes[i].kind = "CodeClosure"})

GenericRows ==
    IF GENERIC \in Lists /\ CanOpen(Files, GENERIC)
    THEN RowsOf(GENERIC) ELSE <<>>

\* The names derived from the generic list.
GenericNames == {Lower(GenericRows[k][1]) : k \in 1..Len(GenericRows)}

\* The working names: category names united with the generic-derived names.
WorkingNames == (Lists \ {GENERIC}) \cup GenericNames

\* 0-based position of nm in the sorted, deduplicated working names.
Position(nm) == Cardinality({x \in WorkingNames : StrLess(x, nm)})

\* The description the last row of the generic list gives for name l.
Captured(l) ==
    LET k == CHOOSE m \in 1..Len(GenericRows) :
                /\ Lower(GenericRows[m][1]) = l
                /\ \A j \in (m+1)..Len(GenericRows) : Lower(GenericRows[j][1]) # l
    IN  IF Len(GenericRows[k]) >= 2 THEN GenericRows[k][2] ELSE None

\* C2: after a completed load, every name derived from the generic list that
\* is not a category name has exactly one non-category Code in the entity
\* sequence, labelled with that name and carrying the description captured
\* from the generic list's row.
C2_Original ==
    Loaded =>
        \A l \in GenericNames \ Lists :
            Cardinality({i \in 1..Len(Codes) :
                            /\ Codes[i].kind = "Code"
                            /\ ~Codes[i].isCategory
                            /\ Codes[i].name \in {l, Title(l)}
                            /\ Codes[i].parent \in {None, l, Title(l)}
                            /\ Codes[i].description = Captured(l)}) = 1

\* C3: after a completed load, the colour of every category Code is
\* palette[i mod P], i being the 0-based position of the category's name in
\* the sorted, deduplicated working names and P the palette size.
C3_Original ==
    Loaded =>
        \A nm \in Lists : \A i \in GroupsOf(nm) :
            Codes[i].colour = COLOURS[(Position(nm) % Len(COLOURS)) + 1]

\* C5: no exception leaves Codebook construction or write(); a generic list
\* that is among the project's lists but cannot be read ends in write()
\* returning failure.
C5_Original == pc # "raised"

\* The project main is working on is absent from the discovery index.
Unknown == idx \in 1..Len(projects) /\ projects[idx] \notin DOMAIN importDir

\* C6: from the request for a Codebook of an unknown project until write()
\* has returned, no file or directory is created or modified, and write()
\* returns failure.
C6_Original ==
    [][(pc \in {"construct", "write"} /\ Unknown) =>
          /\ errorsDir' = errorsDir
          /\ errFiles' = errFiles
          /\ exported' = exported
          /\ (pc = "write" => ret' = RetFalse)]_vars

\* C6 (amended): write() for an unknown project changes no file or
\* directory and returns False; the construction before it writes nothing
\* under export/ but the project's error log export/errors/<name>.txt,
\* which it opens.
C6_WriteOnly ==
    [][Unknown =>
          /\ pc = "write" =>
                /\ errorsDir' = errorsDir
                /\ errFiles' = errFiles
                /\ exported' = exported
                /\ ret' = RetFalse
          /\ pc = "construct" =>
                /\ exported' = exported
                /\ errorsDir'
                /\ projects[idx] \in DOMAIN errFiles'
                /\ cb' = NullCodebook]_vars

\* write() has returned for an unknown project.
C6_Witness ==
    /\ pc = "report"
    /\ Unknown
    /\ cb = NullCodebook
    /\ ret = RetFalse
    /\ projects[idx] \in DOMAIN errFiles
    /\ exported # <<>>

\* C7: when main has ended, every project token has had its report.
C7_Original ==
    pc \in {"done", "raised"} =>
        /\ Len(stdout) >= Len(projects)
        /\ \A i \in 1..Len(projects) : stdout[i].project = projects[i]


NEUTRAL == <<"#","C","0","C","0","C","0">>

\* The rows of list nm that are not blank and not a (label, description) pair.
Malformed(nm) == {k \in 1..Len(RowsOf(nm)) : Len(RowsOf(nm)[k]) # 2}

\* The child at place k of the group opened at i is the fallback Code of row
\* k of list nm, with this colour.
IsFallback(i, k, nm, colour) ==
    /\ i + k <= Len(Codes)
    /\ Codes[i + k].kind = "Code"
    /\ Codes[i + k].name = Title(RowsOf(nm)[k][1])
    /\ Codes[i + k].colour = colour
    /\ Codes[i + k].description = None
    /\ ~Codes[i + k].isCategory

\* The anomalies a load logs: one per file under import/ (the discovery),
\* one per generic row without a second column, one per malformed row of
\* every category group.
RECURSIVE GroupAnomalies(_)
GroupAnomalies(is) ==
    IF is = {} THEN 0
    ELSE LET i  == CHOOSE j \in is : TRUE
             nm == CHOOSE n \in Lists : i \in GroupsOf(n)
         IN  Cardinality(Malformed(nm)) + GroupAnomalies(is \ {i})

Anomalies ==
    read_project_files_logged(importDir)
        + Cardinality({k \in 1..Len(GenericRows) : Len(GenericRows[k]) < 2})
        + GroupAnomalies({i \in 1..Len(Codes) : IsCategoryCode(Codes[i])})

C9_Original ==
    Loaded =>
        /\ \A nm \in Lists \ {GENERIC} : Cardinality(GroupsOf(nm)) = 1
        /\ GroupsOf(GENERIC) = {}

\* The constructions of a Codebook for name n so far.
Constructions(n) ==
    LET upto == IF pc = "construct" THEN idx - 1 ELSE idx
    IN  Cardinality({i \in 1..upto : projects[i] = n})

\* C10: the logger of a name has one handler per construction for that name;
\* an anomaly logged by an instance is appended once per handler to the
\* file of its name; and no step appends to the file of another name.
C10_Original ==
    [][/\ \A n \in DOMAIN handlers' : handlers'[n] = Constructions(n)'
       /\ (pc = "write" /\ Loaded /\ cb.name \in blocked) =>
             errFiles'[cb.name] = errFiles[cb.name] + handlers[cb.name]
       /\ \A n \in DOMAIN errFiles :
             n # projects[idx] => errFiles'[n] = errFiles[n]]_vars

=============================================================================
